---- MODULE Spec2Model ----
(***************************************************************************)
(* scripts/clone_issues.py: copy the issues of ORIGINAL_REPO to            *)
(* FORKED_REPO through the GitHub REST API.                                *)
(*                                                                         *)
(* The script is one synchronous thread.  Each HTTP call is modelled as    *)
(* two steps, the request going out and the response coming back, so that  *)
(* the order of requests and the number of outstanding requests are        *)
(* observable.  `requests` and `responses` are the wire history, `posted`  *)
(* is what the server stored because of the run, `fetched` and `created`   *)
(* record the values returned by fetch_issues and the arguments passed to  *)
(* create_issue.                                                           *)
(*                                                                         *)
(* JSON values: an object is a record (an absent key is a field that is    *)
(* not in the record's DOMAIN), an array is a sequence, null is Null.      *)
(* json.dumps / response.json() carry objects, arrays, strings and null    *)
(* through unchanged, key set included, so a payload is kept as the record *)
(* that is serialised.                                                     *)
(***************************************************************************)
EXTENDS Integers, Sequences, FiniteSets, TLC

VARIABLES pc, page, issues, i, requests, responses, fetched, created,
          posted, error, source

vars == <<pc, page, issues, i, requests, responses, fetched, created,
          posted, error, source>>

-----------------------------------------------------------------------------
(* Bounds of the model *)

\* fetch_issues is not called for a page number above MaxPage
MaxPage == 3
\* longest page an unconstrained server returns (Spec)
MaxPageLen == 2
\* largest stable source repository (SpecStable)
MaxN == 150

-----------------------------------------------------------------------------
(* Module-level constants of the script *)

ORIGINAL_REPO == "Avnu/gptp"
FORKED_REPO == "githubnext/workspace-blank"
Repos == {ORIGINAL_REPO, FORKED_REPO}

\* params = {"page": page, "per_page": 100}
PerPage == 100

\* JSON null (Python None)
Null == "<null>"

-----------------------------------------------------------------------------
(* Source issues as the listing endpoint returns them *)

LabelBug == [name |-> "bug", color |-> "d73a4a"]
LabelDocs == [name |-> "documentation", color |-> "0075ca"]

\* an issue with a text body and two labels, not in alphabetical order
IssueA == [number |-> 1, state |-> "open", title |-> "A", body |-> "text",
           labels |-> <<LabelDocs, LabelBug>>]
\* an issue with an empty body (JSON null) and no labels
IssueB == [number |-> 2, state |-> "closed", title |-> "B", body |-> Null,
           labels |-> <<>>]
\* an issue object that has no "body" key at all
IssueC == [number |-> 3, state |-> "open", title |-> "C",
           labels |-> <<LabelBug>>]

Issues == {IssueA, IssueB, IssueC}

\* every page of at most MaxPageLen issues
Pages == UNION {[1..n -> Issues] : n \in 0..MaxPageLen}

\* the k-th issue of a stable source repository
StableIssue(k) == [number |-> k, state |-> "open", title |-> "A",
                   body |-> "text", labels |-> <<LabelBug>>]

StableSource(n) == [k \in 1..n |-> StableIssue(k)]

\* the listing endpoint on a stable repository: items (p-1)*per+1 .. p*per
PageOf(src, p, per) ==
    LET lo == (p - 1) * per
        n  == IF Len(src) - lo < 0 THEN 0
              ELSE IF Len(src) - lo > per THEN per ELSE Len(src) - lo
    IN  [k \in 1..n |-> src[lo + k]]

-----------------------------------------------------------------------------
(* HTTP *)

\* final statuses the listing endpoint answers with
GetStatuses == {200, 404, 500}
\* final statuses the creation endpoint answers with
PostStatuses == {201, 422}

\* variant: only a server error raises
RaiseForStatus_ServerOnly(status) == status >= 500 /\ status < 600

\* response.raise_for_status(): raises HTTPError on a 4xx or 5xx status
RaiseForStatus(status) == status >= 400 /\ status < 600

\* requests.get(url, headers=HEADERS, params=params)
GetRequest(repo, p) ==
    [method |-> "GET", repo |-> repo, endpoint |-> "issues",
     params |-> [page |-> p, per_page |-> PerPage]]

\* requests.post(url, headers=HEADERS, data=json.dumps(data))
PostRequest(repo, data) ==
    [method |-> "POST", repo |-> repo, endpoint |-> "issues", data |-> data]

-----------------------------------------------------------------------------
(* create_issue: the payload *)

\* the keys create_issue subscripts; a missing one raises KeyError
PayloadKeys == {"title", "body", "labels"}

\* variant: "labels" is left out of the payload when the issue has none
Payload_OmitEmptyLabels(issue) ==
    IF issue.labels = <<>>
    THEN [title |-> issue.title, body |-> issue.body]
    ELSE [title  |-> issue.title,
          body   |-> issue.body,
          labels |-> [k \in 1..Len(issue.labels) |-> issue.labels[k].name]]

\* data = {"title": ..., "body": ..., "labels": [label["name"] for label in ...]}
Payload(issue) ==
    [title  |-> issue.title,
     body   |-> issue.body,
     labels |-> [k \in 1..Len(issue.labels) |-> issue.labels[k].name]]

-----------------------------------------------------------------------------
(* clone_issues: the driver *)

\* variant: the loop also stops on a page shorter than per_page
NotIssues_ShortPage(js) == Len(js) < PerPage

\* `if not issues`
NotIssues(js) == js = <<>>

\* the repository clone_issues reads from
FetchRepo == ORIGINAL_REPO

\* variant: the issues are created in the repository they were read from
CreateRepo_Source == ORIGINAL_REPO

\* the repository clone_issues writes to
CreateRepo == FORKED_REPO

\* variant: the counter advances by two
NextPage_Skip(p) == p + 2

\* variant: the counter is not advanced
NextPage_Stuck(p) == p

\* the page number after a page has been processed: page += 1
NextPage(p) == p + 1

\* variant: the loop stops one issue early
HasNextIssue_SkipLast(js, k) == k < Len(js) - 1

\* the for loop has a further issue after position k
HasNextIssue(js, k) == k < Len(js)

Init ==
    /\ pc = "fetch"
    /\ page = 1
    /\ issues = <<>>
    /\ i = 0
    /\ requests = <<>>
    /\ responses = <<>>
    /\ fetched = <<>>
    /\ created = <<>>
    /\ posted = [r \in Repos |-> <<>>]
    /\ error = "none"
    /\ source = <<>>

\* variant: the POST is not waited for before the next page is requested
FetchIssues_NoWait ==
    /\ pc \in {"fetch", "post"}
    /\ page <= MaxPage
    /\ requests' = Append(requests, GetRequest(FetchRepo, page))
    /\ pc' = "get"
    /\ UNCHANGED <<page, issues, i, responses, fetched, created, posted,
                   error, source>>

\* issues = fetch_issues(ORIGINAL_REPO, page): the GET goes out
FetchIssues ==
    /\ pc = "fetch"
    /\ page <= MaxPage
    /\ requests' = Append(requests, GetRequest(FetchRepo, page))
    /\ pc' = "get"
    /\ UNCHANGED <<page, issues, i, responses, fetched, created, posted,
                   error, source>>

\* the GET's response arrives: raise_for_status, return response.json(),
\* then `if not issues: break`
GetResponse(status, js) ==
    /\ pc = "get"
    /\ responses' = Append(responses, status)
    /\ IF RaiseForStatus(status)
       THEN /\ pc' = "aborted"
            /\ error' = "HTTPError"
            /\ UNCHANGED <<issues, i, fetched>>
       ELSE /\ issues' = js
            /\ fetched' = Append(fetched, js)
            /\ error' = error
            /\ IF NotIssues(js)
               THEN pc' = "done" /\ i' = i
               ELSE pc' = "create" /\ i' = 1
    /\ UNCHANGED <<page, requests, created, posted, source>>

\* create_issue(FORKED_REPO, issue) for the loop's current issue: the
\* payload is built (KeyError on a missing key) and the POST goes out
CreateIssue ==
    /\ pc = "create"
    /\ created' = Append(created, issues[i])
    /\ IF PayloadKeys \subseteq DOMAIN issues[i]
       THEN /\ requests' = Append(requests,
                                  PostRequest(CreateRepo, Payload(issues[i])))
            /\ pc' = "post"
            /\ error' = error
       ELSE /\ pc' = "aborted"
            /\ error' = "KeyError"
            /\ requests' = requests
    /\ UNCHANGED <<page, issues, i, responses, fetched, posted, source>>

\* the POST's response arrives: raise_for_status, then the for loop
\* advances, or the page is finished and page += 1
PostResponse(status) ==
    /\ pc = "post"
    /\ responses' = Append(responses, status)
    /\ IF RaiseForStatus(status)
       THEN /\ pc' = "aborted"
            /\ error' = "HTTPError"
            /\ UNCHANGED <<page, i, posted>>
       ELSE /\ LET req == requests[Len(requests)]
               IN  posted' = [posted EXCEPT ![req.repo] = Append(@, req.data)]
            /\ error' = error
            /\ IF HasNextIssue(issues, i)
               THEN pc' = "create" /\ i' = i + 1 /\ page' = page
               ELSE pc' = "fetch" /\ i' = i /\ page' = NextPage(page)
    /\ UNCHANGED <<issues, requests, fetched, created, source>>

\* the listing endpoint answers with any status and any page
FetchResponse ==
    \E status \in GetStatuses, js \in Pages : GetResponse(status, js)

\* the creation endpoint answers with any status
CreateResponse ==
    \E status \in PostStatuses : PostResponse(status)

Next ==
    \/ FetchIssues
    \/ FetchResponse
    \/ CreateIssue
    \/ CreateResponse

Spec == Init /\ [][Next]_vars

-----------------------------------------------------------------------------
(* The run against a source repository of N issues that does not change,   *)
(* with every request succeeding                                           *)

InitStable ==
    /\ pc = "fetch"
    /\ page = 1
    /\ issues = <<>>
    /\ i = 0
    /\ requests = <<>>
    /\ responses = <<>>
    /\ fetched = <<>>
    /\ created = <<>>
    /\ posted = [r \in Repos |-> <<>>]
    /\ error = "none"
    /\ \E n \in 0..MaxN : source = StableSource(n)

\* 200 with the requested page of the source
FetchResponseStable ==
    /\ pc = "get"
    /\ LET req == requests[Len(requests)]
       IN  GetResponse(200, PageOf(source, req.params.page,
                                   req.params.per_page))

\* 201 Created
CreateResponseStable == PostResponse(201)

NextStable ==
    \/ FetchIssues
    \/ FetchResponseStable
    \/ CreateIssue
    \/ CreateResponseStable

SpecStable == InitStable /\ [][NextStable]_vars

-----------------------------------------------------------------------------
(* Properties *)

IsGet(r) == r.method = "GET"
IsPost(r) == r.method = "POST"

\* the GET requests and the POST requests of the run, in order
Gets == SelectSeq(requests, IsGet)
Posts == SelectSeq(requests, IsPost)

\* a 2xx status
Is2xx(status) == status >= 200 /\ status < 300

RECURSIVE Concat(_)
\* the pages of a sequence of pages, one after the other
Concat(ps) == IF ps = <<>> THEN <<>> ELSE Head(ps) \o Concat(Tail(ps))

IsPrefix(s, t) == Len(s) <= Len(t) /\ s = SubSeq(t, 1, Len(s))

LastOf(s) == s[Len(s)]

\* C1: the issues passed to create_issue are at every moment a prefix of the
\* returned pages laid end to end: the prefix ends just before (or, once the
\* call is made, at) the loop's current issue, and is the whole of the
\* returned pages whenever the driver is between pages or done.
C1_CreatorOncePerIssueInOrder ==
    LET all == Concat(fetched)
    IN  /\ IsPrefix(created, all)
        /\ pc \in {"fetch", "get", "done"} => created = all
        /\ pc = "create" => Len(created) = Len(all) - Len(issues) + i - 1
        /\ pc = "post" => Len(created) = Len(all) - Len(issues) + i

C1_Witness ==
    /\ pc = "done"
    /\ fetched = << <<IssueA, IssueB>>, <<IssueA>>, <<>> >>
    /\ created = <<IssueA, IssueB, IssueA>>

\* C2: the driver is done exactly when fetch_issues has returned an empty
\* page; an empty page is the last page returned and its GET the last request
\* of the run, and a non-empty page, however short, is never followed by done.
C2_DoneIffEmptyPage ==
    /\ (pc = "done") <=> (\E k \in 1..Len(fetched) : fetched[k] = <<>>)
    /\ \A k \in 1..Len(fetched) :
          fetched[k] = <<>> =>
             /\ k = Len(fetched)
             /\ pc = "done"
             /\ IsGet(LastOf(requests))
             /\ Len(responses) = Len(requests)
    /\ (fetched # <<>> /\ LastOf(fetched) # <<>>) => pc # "done"

C2_Witness ==
    /\ pc = "done"
    /\ Len(fetched) = 3
    /\ Len(fetched[1]) = 1
    /\ Len(fetched[2]) = 2
    /\ Len(fetched[1]) < PerPage

\* C3: the k-th payload sent has exactly the keys title, body and labels; its
\* title and body are those of the k-th issue passed to create_issue and its
\* labels are that issue's label names, same length and order (so the empty
\* sequence for an issue without labels).
C3_PayloadExact ==
    \A k \in 1..Len(Posts) :
       LET data  == Posts[k].data
           issue == created[k]
       IN  /\ DOMAIN data = {"title", "body", "labels"}
           /\ data.title = issue.title
           /\ data.body = issue.body
           /\ DOMAIN data.labels = DOMAIN issue.labels
           /\ \A j \in DOMAIN issue.labels :
                 data.labels[j] = issue.labels[j].name
           /\ issue.labels = <<>> => data.labels = <<>>

C3_Witness ==
    /\ Len(Posts) = 2
    /\ created = <<IssueA, IssueB>>
    /\ Posts[1].data.labels = <<"documentation", "bug">>
    /\ Posts[2].data.labels = <<>>
    /\ Posts[2].data.body = Null

C5_StableRunCounts ==
    pc = "done" =>
       LET n == Len(source)
           k == ((n + 99) \div 100) + 1
       IN  /\ Len(Gets) = k
           /\ \A j \in 1..k : Gets[j].params.page = j
           /\ Len(fetched) = k
           /\ \A j \in 1..(k - 1) : fetched[j] # <<>>
           /\ fetched[k] = <<>>
           /\ Len(created) = n
           /\ Len(Posts) = n
           /\ n = 150 => /\ Len(fetched[1]) = 100
                         /\ Len(fetched[2]) = 50
                         /\ Len(fetched[3]) = 0
           /\ n = 0 => Len(requests) = 1

C5_Witness ==
    /\ pc = "done"
    /\ Len(source) = 150
    /\ Len(Posts) = 150
    /\ Len(Gets) = 3

\* C6: the process ends either normally, after an empty page, with every
\* request answered 2xx, the last request being that page's GET and every
\* fetched issue passed to create_issue; or aborted, with the last request
\* answered by the run's first and only non-2xx response.
C6_TwoWaysToEnd ==
    /\ pc = "done" =>
          /\ fetched # <<>> /\ LastOf(fetched) = <<>>
          /\ IsGet(LastOf(requests))
          /\ \A k \in 1..Len(responses) : Is2xx(responses[k])
          /\ created = Concat(fetched)
    /\ pc = "aborted" =>
          /\ responses # <<>>
          /\ Len(responses) = Len(requests)
          /\ ~Is2xx(LastOf(responses))
          /\ \A k \in 1..(Len(responses) - 1) : Is2xx(responses[k])

\* C7: the process is aborted only by a non-2xx response, and every issue
\* passed to create_issue whose body is empty or absent has its POST sent.
C7_OnlyHttpFailureAborts ==
    /\ pc = "aborted" =>
          /\ error = "HTTPError"
          /\ responses # <<>>
          /\ ~Is2xx(LastOf(responses))
    /\ \A k \in 1..Len(created) :
          ("body" \notin DOMAIN created[k] \/ created[k].body = Null) =>
             Len(Posts) >= k

\* C7, the part that holds: an issue whose body is JSON null has its POST
\* sent, with body null in the payload.
C7_NullBodyIsSubmitted ==
    \A k \in 1..Len(created) :
       ("body" \in DOMAIN created[k] /\ created[k].body = Null) =>
          (Len(Posts) >= k /\ Posts[k].data.body = Null)

\* the shape of every request of the run
RequestsAreReadSourceWriteDest ==
    \A k \in 1..Len(requests) :
       /\ requests[k].endpoint = "issues"
       /\ \/ requests[k].method = "GET" /\ requests[k].repo = ORIGINAL_REPO
          \/ requests[k].method = "POST" /\ requests[k].repo = FORKED_REPO

\* C8: every step leaves every request of the run a GET on the source's
\* issues or a POST on the destination's issues, stores nothing in the source
\* repository and never shrinks what the destination holds.
C8_ReadSourceWriteDest ==
    [][ /\ RequestsAreReadSourceWriteDest'
        /\ posted'[ORIGINAL_REPO] = posted[ORIGINAL_REPO]
        /\ IsPrefix(posted[FORKED_REPO], posted'[FORKED_REPO]) ]_vars

C8_Witness ==
    /\ Len(posted[FORKED_REPO]) = 2
    /\ posted[ORIGINAL_REPO] = <<>>
    /\ Len(Gets) = 2

\* C9: the page counter starts at 1, the j-th GET asks for page j, and the
\* counter is one more than the number of GETs exactly when a non-empty page
\* has been fully processed and the next GET is not yet sent.
C9_PageNumbersConsecutive ==
    /\ \A j \in 1..Len(Gets) : Gets[j].params.page = j
    /\ page = IF pc = "fetch" THEN Len(Gets) + 1 ELSE Len(Gets)
    /\ pc = "fetch" =>
          /\ Len(fetched) = page - 1
          /\ \A j \in 1..Len(fetched) : fetched[j] # <<>>
          /\ created = Concat(fetched)

C9_Witness ==
    /\ Len(Gets) = 3
    /\ Gets[3].params.page = 3
    /\ page = 3
    /\ pc = "create"

\* C10: at most one request is outstanding; when the j-th GET is sent every
\* earlier request has been answered 2xx and exactly the issues of pages
\* 1..j-1 have been POSTed; every POST is sent after the GET of its issue's
\* page has returned.
C10_NoOverlapNoBuffering ==
    /\ Len(requests) - Len(responses) \in {0, 1}
    /\ \A p \in 1..Len(requests) :
          LET j == Len(SelectSeq(SubSeq(requests, 1, p), IsGet))
              m == p - j
          IN  IF IsGet(requests[p])
              THEN /\ Len(fetched) >= j - 1
                   /\ m = Len(Concat(SubSeq(fetched, 1, j - 1)))
                   /\ \A q \in 1..(p - 1) : Is2xx(responses[q])
              ELSE /\ j >= 1
                   /\ Len(fetched) >= j
                   /\ m > Len(Concat(SubSeq(fetched, 1, j - 1)))
                   /\ m <= Len(Concat(SubSeq(fetched, 1, j)))

C10_Witness ==
    /\ Len(Gets) = 2
    /\ Len(Posts) = 3
    /\ Len(fetched[1]) = 2
    /\ pc = "post"

====
